---- MODULE Spec2Model ----
(***************************************************************************)
(* Model of the `input` crate: the Validations rule runner, the Error and  *)
(* FormError types (src/src/lib.rs) and the UserInput implementations      *)
(* Select, RelationalSelect, Scalar (Integer<u32>, Text), Year,            *)
(* RelativeMonth, Month, RelativeQuarter, Quarter, DateResolution and      *)
(* TimeRange (src/src/inputs.rs).                                          *)
(*                                                                         *)
(* A String is a sequence of one-character strings.  One behaviour         *)
(* follows one object (a field of one kind, a Validations value or a form  *)
(* with its FormError) from its constructor through any sequence of calls  *)
(* of its public methods.                                                  *)
(***************************************************************************)
EXTENDS Integers, Sequences, FiniteSets, TLC

VARIABLES kind, field, errors, ret

vars == <<kind, field, errors, ret>>

(***************************************************************************)
(* Bounds of the model.                                                    *)
(***************************************************************************)
\* longest raw text generated from Alphabet (longer texts come from SampleTexts)
MaxLen == 1
\* longest caller-supplied rule list
MaxRules == 2

(***************************************************************************)
(* Strings.                                                                *)
(***************************************************************************)
Digits == {"0", "1", "2", "3", "4", "5", "6", "7", "8", "9"}

DigitChar == <<"0", "1", "2", "3", "4", "5", "6", "7", "8", "9">>

DigitVal(c) == (CHOOSE i \in 1..10 : DigitChar[i] = c) - 1

Alphabet == {"0", "1", "x"}

RECURSIVE StringsOfLen(_)
StringsOfLen(n) ==
    IF n = 0 THEN {<<>>}
    ELSE {Append(s, c) : s \in StringsOfLen(n - 1), c \in Alphabet}

SampleTexts ==
    { <<"2">>, <<"3">>, <<"5">>, <<"1", "2">>, <<"1", "3">>, <<"+", "3">>,
      <<"-", "1">>, <<"2", "0", "2", "4">>,
      <<"3", "0", "0", "0", "0", "0">>,
      <<"4", "2", "9", "4", "9", "6", "7", "2", "9", "6">> }

Texts == UNION {StringsOfLen(n) : n \in 0..MaxLen} \cup SampleTexts

\* <u32 as Display>::fmt / <i32 as Display>::fmt
RECURSIVE NatToString(_)
NatToString(n) ==
    IF n < 10 THEN <<DigitChar[n + 1]>>
    ELSE Append(NatToString(n \div 10), DigitChar[(n % 10) + 1])

IntToString(n) == IF n < 0 THEN <<"-">> \o NatToString(-n) ELSE NatToString(n)

(***************************************************************************)
(* <u32 as FromStr>::from_str and <i32 as FromStr>::from_str.  The limits  *)
(* are kept as decimal digit strings: u32::MAX is above the integers TLC    *)
(* computes with, so overflow is decided on the digits, as the checked     *)
(* multiply-and-add of the library decides it, left to right.              *)
(***************************************************************************)
U32MaxDigits == <<"4", "2", "9", "4", "9", "6", "7", "2", "9", "5">>
I32MaxDigits == <<"2", "1", "4", "7", "4", "8", "3", "6", "4", "7">>
I32MinDigits == <<"2", "1", "4", "7", "4", "8", "3", "6", "4", "8">>

RECURSIVE StripZeros(_)
StripZeros(ds) ==
    IF Len(ds) > 1 /\ Head(ds) = "0" THEN StripZeros(Tail(ds)) ELSE ds

RECURSIVE LexGreater(_, _)
LexGreater(a, b) ==
    IF a = <<>> THEN FALSE
    ELSE IF DigitVal(Head(a)) # DigitVal(Head(b))
         THEN DigitVal(Head(a)) > DigitVal(Head(b))
         ELSE LexGreater(Tail(a), Tail(b))

\* the magnitude written by the digits ds is larger than the one written by limit
Exceeds(ds, limit) ==
    LET sig == StripZeros(ds)
    IN  \/ Len(sig) > Len(limit)
        \/ Len(sig) = Len(limit) /\ LexGreater(sig, limit)

RECURSIVE Accumulate(_, _, _)
Accumulate(ds, acc, sign) ==
    IF ds = <<>> THEN acc
    ELSE Accumulate(Tail(ds), acc * 10 + sign * DigitVal(Head(ds)), sign)

ParseIntError(k) == [cause |-> "ParseIntError", int_kind |-> k]

ParseInt(s, signed) ==
    IF s = <<>> THEN [ok |-> FALSE, err |-> ParseIntError("Empty")]
    ELSE IF s \in {<<"+">>, <<"-">>}
    THEN [ok |-> FALSE, err |-> ParseIntError("InvalidDigit")]
    ELSE LET negative == signed /\ Head(s) = "-"
             ds == IF Head(s) = "+" \/ negative THEN Tail(s) ELSE s
             limit == IF ~signed THEN U32MaxDigits
                      ELSE IF negative THEN I32MinDigits ELSE I32MaxDigits
             bad == {i \in 1..Len(ds) :
                        \/ ds[i] \notin Digits
                        \/ Exceeds(SubSeq(ds, 1, i), limit)}
         IN  IF bad = {}
             THEN [ok |-> TRUE,
                   val |-> Accumulate(ds, 0, IF negative THEN -1 ELSE 1)]
             ELSE LET i == CHOOSE j \in bad : \A k \in bad : j <= k
                  IN  [ok |-> FALSE,
                       err |-> ParseIntError(
                           IF ds[i] \notin Digits THEN "InvalidDigit"
                           ELSE IF negative THEN "NegOverflow"
                           ELSE "PosOverflow")]

ParseU32(s) == ParseInt(s, FALSE)

ParseI32(s) == ParseInt(s, TRUE)

\* <String as FromStr>::from_str (Err = Infallible) and <String as Display>
ParseString(s) == [ok |-> TRUE, val |-> s]

StringToString(s) == s

(***************************************************************************)
(* lib.rs: Result, Error, ValidationErrors, Validations.                   *)
(***************************************************************************)
Ok(v) == [kind |-> "Ok", val |-> v]

\* impl<T: error::Error> From<T> for Error
ErrParse(cause) == [kind |-> "Parse", cause |-> cause]

\* impl From<ValidationErrors> for Error, impl From<Vec<String>> for ValidationErrors
ErrValidation(messages) == [kind |-> "Validation", errors |-> messages]

\* a panic unwinding out of the call
Panicked(why) == [kind |-> "Panic", why |-> why]

\* the value of a call that returns ()
Unit == [kind |-> "Unit"]

IsErr(r) == r.kind \in {"Parse", "Validation"}

\* format!(fmt, arg); a message without an argument has arg = <<>>
Message(fmt, arg) == [fmt |-> fmt, arg |-> arg]

\* the caller-supplied rule functions the model draws rule lists from
RuleNames == {"even", "below_ten"}

RECURSIVE SeqsOfLen(_, _)
SeqsOfLen(S, n) ==
    IF n = 0 THEN {<<>>}
    ELSE {Append(s, x) : s \in SeqsOfLen(S, n - 1), x \in S}

RuleLists == UNION {SeqsOfLen(RuleNames, n) : n \in 0..MaxRules}

\* the rule lists the children of a composite are built with
ChildRuleLists == {<<>>, <<"below_ten">>}

(***************************************************************************)
(* The value types of the `resolution` and `chrono` crates, by the         *)
(* operations inputs.rs calls on them.                                     *)
(***************************************************************************)
MinYear == -262144
MaxYear == 262143

\* chrono::NaiveDate::from_ymd panics on an invalid or out-of-range date
NaiveDate_from_ymd(y, m, d) ==
    IF y >= MinYear /\ y <= MaxYear /\ m >= 1 /\ m <= 12 /\ d = 1
    THEN [ok |-> TRUE, date |-> [year |-> y, month |-> m, day |-> d]]
    ELSE [ok |-> FALSE]

resolution_Year_new(n) == [year_num |-> n]

resolution_Year_year_num(y) == y.year_num

resolution_Year_to_string(y) == IntToString(y.year_num)

resolution_Month_from_date(date) == [months |-> date.year * 12 + (date.month - 1)]

resolution_Month_year(m) == resolution_Year_new(m.months \div 12)

resolution_Month_month_num(m) == (m.months % 12) + 1

resolution_Quarter_from_date(date) ==
    [quarters |-> date.year * 4 + ((date.month - 1) \div 3)]

resolution_Quarter_year(q) == resolution_Year_new(q.quarters \div 4)

resolution_Quarter_quarter_num(q) == (q.quarters % 4) + 1

resolution_TimeRange_new(start, len) == [start |-> start, len |-> len]

resolution_TimeRange_start(r) == r.start

resolution_TimeRange_len(r) == r.len

\* the number a sample rule looks at, for each Output type T
RuleKey(T, v) ==
    CASE T = "u32" -> v
      [] T = "String" -> Len(v)
      [] T = "Year" -> resolution_Year_year_num(v)
      [] T = "Month" -> resolution_Month_month_num(v)
      [] T = "Quarter" -> resolution_Quarter_quarter_num(v)
      [] T = "TimeRange" -> resolution_TimeRange_len(v)

\* fn greater_than_zero(input: &u32) -> ValidationResult
greater_than_zero(input) ==
    IF input > 0 THEN [ok |-> TRUE]
    ELSE [ok |-> FALSE, msg |-> Message("Input must be greater than zero", <<>>)]

\* f(input) for a ValidationFn<T> f
CallRule(f, T, v) ==
    CASE f = "greater_than_zero" -> greater_than_zero(v)
      [] f = "even" ->
            IF RuleKey(T, v) % 2 = 0 THEN [ok |-> TRUE]
            ELSE [ok |-> FALSE, msg |-> Message("must be even", <<>>)]
      [] f = "below_ten" ->
            IF RuleKey(T, v) < 10 THEN [ok |-> TRUE]
            ELSE [ok |-> FALSE, msg |-> Message("must be below ten", <<>>)]

RuleFailed(r) == ~r.ok

\* Validations::validate, short-circuiting at the first failing rule
RECURSIVE FirstFailure(_, _, _, _)
FirstFailure(funcs, T, input, i) ==
    IF i > Len(funcs) THEN [ok |-> TRUE, errors |-> <<>>, evaluated |-> funcs]
    ELSE IF RuleFailed(CallRule(funcs[i], T, input))
         THEN [ok |-> FALSE,
               errors |-> <<CallRule(funcs[i], T, input).msg>>,
               evaluated |-> SubSeq(funcs, 1, i)]
         ELSE FirstFailure(funcs, T, input, i + 1)

validate_short_circuit(funcs, T, input) == FirstFailure(funcs, T, input, 1)

\* Validations::validate: every rule is called, the Err(e) are kept in order.
\* `evaluated` lists the rules that were called.
validate(funcs, T, input) ==
    LET results == [i \in 1..Len(funcs) |-> CallRule(funcs[i], T, input)]
        failed == SelectSeq(results, RuleFailed)
        errs == [i \in 1..Len(failed) |-> failed[i].msg]
    IN  [ok |-> errs = <<>>, errors |-> errs, evaluated |-> funcs]

\* the rules called while parsing, each with the path of the rule set it is in
Evaluated(path, funcs) ==
    [i \in 1..Len(funcs) |-> [set |-> path, rule |-> funcs[i]]]

Under(name, evaluated) ==
    [i \in 1..Len(evaluated) |->
        [set |-> <<name>> \o evaluated[i].set, rule |-> evaluated[i].rule]]

\* what parse() hands back: its Result and the rules it called, in call order
Outcome(res, evaluated) == [res |-> res, evaluated |-> evaluated]

(***************************************************************************)
(* inputs.rs: the atomic fields.  A field is the record of its struct.     *)
(***************************************************************************)
SelectError(selected) == [cause |-> "SelectError", selected |-> selected]

\* impl fmt::Display for SelectError
SelectError_fmt(self) ==
    Message("Value {} is not in the list of allowed options", self.selected)

\* Select<ParseIntError, u32>
Select_new(data, options) == [input |-> NatToString(data), options |-> options]

Select_set_value(self, data) == [self EXCEPT !.input = NatToString(data)]

Select_update(self, input) == [self EXCEPT !.input = input]

\* membership decided by the candidate's position instead of the set
Select_parse_positional(self) ==
    LET parsed == ParseU32(self.input)
    IN  IF ~parsed.ok THEN Outcome(ErrParse(parsed.err), <<>>)
        ELSE IF parsed.val >= 1 /\ parsed.val <= Cardinality(self.options)
        THEN Outcome(Ok(parsed.val), <<>>)
        ELSE Outcome(ErrParse(SelectError(self.input)), <<>>)

Select_parse(self) ==
    LET parsed == ParseU32(self.input)
    IN  IF ~parsed.ok THEN Outcome(ErrParse(parsed.err), <<>>)
        ELSE IF parsed.val \in self.options
        THEN Outcome(Ok(parsed.val), <<>>)
        ELSE Outcome(ErrParse(SelectError(self.input)), <<>>)

\* RelationalSelect<ParseIntError, u32, String>; options is the map key -> label
RelationalSelect_new(input, options) == [input |-> input, options |-> options]

RelationalSelect_set_value(self, data) ==
    [self EXCEPT !.input = NatToString(data)]

RelationalSelect_update(self, input) == [self EXCEPT !.input = input]

RelationalSelect_parse(self) ==
    LET key == ParseU32(self.input)
    IN  IF ~key.ok THEN Outcome(ErrParse(key.err), <<>>)
        ELSE IF key.val \in DOMAIN self.options
        THEN Outcome(Ok(key.val), <<>>)
        ELSE Outcome(ErrParse(SelectError(self.input)), <<>>)

\* O::from_str and O::to_string for the Scalar<O, E> the model instantiates:
\* Integer<u32> (T = "u32") and Text (T = "String")
FromStr(T, s) == IF T = "u32" THEN ParseU32(s) ELSE ParseString(s)

DisplayToString(T, v) == IF T = "u32" THEN NatToString(v) ELSE StringToString(v)

Scalar_new(data, validations, T) ==
    [input |-> DisplayToString(T, data), validations |-> validations]

Scalar_set_value(self, data, T) == [self EXCEPT !.input = DisplayToString(T, data)]

\* the new text is appended to the stored text instead of replacing it
Scalar_update_appending(self, input) ==
    [self EXCEPT !.input = self.input \o input]

Scalar_update(self, input) == [self EXCEPT !.input = input]

\* the rules are run whether or not the text converted
Scalar_parse_always_validates(self, T) ==
    LET parsed == FromStr(T, self.input)
        v == validate(self.validations, T, IF parsed.ok THEN parsed.val ELSE 0)
    IN  IF ~parsed.ok
        THEN Outcome(ErrParse(parsed.err),
                     Evaluated(<<"validations">>, v.evaluated))
        ELSE IF ~v.ok
        THEN Outcome(ErrValidation(v.errors),
                     Evaluated(<<"validations">>, v.evaluated))
        ELSE Outcome(Ok(parsed.val), Evaluated(<<"validations">>, v.evaluated))

Scalar_parse(self, T) ==
    LET parsed == FromStr(T, self.input)
    IN  IF ~parsed.ok THEN Outcome(ErrParse(parsed.err), <<>>)
        ELSE LET v == validate(self.validations, T, parsed.val)
                 ev == Evaluated(<<"validations">>, v.evaluated)
             IN  IF ~v.ok THEN Outcome(ErrValidation(v.errors), ev)
                 ELSE Outcome(Ok(parsed.val), ev)

Year_new(data, validations) ==
    [input |-> resolution_Year_to_string(data), validations |-> validations]

\* the sign of the year is dropped
Year_set_value_unsigned(self, data) ==
    [self EXCEPT !.input =
        NatToString(IF resolution_Year_year_num(data) < 0
                    THEN -resolution_Year_year_num(data)
                    ELSE resolution_Year_year_num(data))]

Year_set_value(self, data) ==
    [self EXCEPT !.input = IntToString(resolution_Year_year_num(data))]

Year_update(self, input) == [self EXCEPT !.input = input]

Year_parse(self) ==
    LET n == ParseI32(self.input)
    IN  IF ~n.ok THEN Outcome(ErrParse(n.err), <<>>)
        ELSE LET parsed == resolution_Year_new(n.val)
                 v == validate(self.validations, "Year", parsed)
                 ev == Evaluated(<<"validations">>, v.evaluated)
             IN  IF ~v.ok THEN Outcome(ErrValidation(v.errors), ev)
                 ELSE Outcome(Ok(parsed), ev)

RelativeMonth_new(data, validations) ==
    [input |-> NatToString(data), validations |-> validations]

RelativeMonth_set_value(self, data) == [self EXCEPT !.input = NatToString(data)]

RelativeMonth_update(self, input) == [self EXCEPT !.input = input]

\* the range check left out: an out-of-range number goes on to the rules
RelativeMonth_parse_unchecked(self) ==
    LET parsed == ParseU32(self.input)
    IN  IF ~parsed.ok THEN Outcome(ErrParse(parsed.err), <<>>)
        ELSE LET v == validate(self.validations, "u32", parsed.val)
                 ev == Evaluated(<<"validations">>, v.evaluated)
             IN  IF ~v.ok THEN Outcome(ErrValidation(v.errors), ev)
                 ELSE Outcome(Ok(parsed.val), ev)

RelativeMonth_parse(self) ==
    LET parsed == ParseU32(self.input)
    IN  IF ~parsed.ok THEN Outcome(ErrParse(parsed.err), <<>>)
        ELSE IF parsed.val < 1 \/ parsed.val > 12
        THEN Outcome(
                ErrValidation(
                    <<Message("Month number should be between 1 and 12 but was {}",
                              NatToString(parsed.val))>>),
                <<>>)
        ELSE LET v == validate(self.validations, "u32", parsed.val)
                 ev == Evaluated(<<"validations">>, v.evaluated)
             IN  IF ~v.ok THEN Outcome(ErrValidation(v.errors), ev)
                 ELSE Outcome(Ok(parsed.val), ev)

RelativeQuarter_new(data, validations) ==
    [input |-> NatToString(data), validations |-> validations]

RelativeQuarter_set_value(self, data) ==
    [self EXCEPT !.input = NatToString(data)]

RelativeQuarter_update(self, input) == [self EXCEPT !.input = input]

\* the range check left out: any number goes on to the rules and the caller
RelativeQuarter_parse_unchecked(self) ==
    LET parsed == ParseU32(self.input)
    IN  IF ~parsed.ok THEN Outcome(ErrParse(parsed.err), <<>>)
        ELSE LET v == validate(self.validations, "u32", parsed.val)
                 ev == Evaluated(<<"validations">>, v.evaluated)
             IN  IF ~v.ok THEN Outcome(ErrValidation(v.errors), ev)
                 ELSE Outcome(Ok(parsed.val), ev)

RelativeQuarter_parse(self) ==
    LET parsed == ParseU32(self.input)
    IN  IF ~parsed.ok THEN Outcome(ErrParse(parsed.err), <<>>)
        ELSE IF parsed.val < 1 \/ parsed.val > 4
        THEN Outcome(
                ErrValidation(
                    <<Message("Quarter number should be between 1 and 4 but was {}",
                              NatToString(parsed.val))>>),
                <<>>)
        ELSE LET v == validate(self.validations, "u32", parsed.val)
                 ev == Evaluated(<<"validations">>, v.evaluated)
             IN  IF ~v.ok THEN Outcome(ErrValidation(v.errors), ev)
                 ELSE Outcome(Ok(parsed.val), ev)

(***************************************************************************)
(* inputs.rs: the composite fields.  An update message is the record       *)
(* [tag, input] of its enum variant.                                       *)
(***************************************************************************)
Month_new(input, year_validations, month_validations, validations) ==
    [year |-> Year_new(resolution_Month_year(input), year_validations),
     month |-> RelativeMonth_new(resolution_Month_month_num(input),
                                 month_validations),
     validations |-> validations]

Month_set_value(self, data) ==
    [self EXCEPT !.year = Year_set_value(self.year, resolution_Month_year(data)),
                 !.month = RelativeMonth_set_value(
                               self.month, resolution_Month_month_num(data))]

\* the message is written to both children
Month_update_both(self, input) ==
    [self EXCEPT !.year.input = input.input, !.month.input = input.input]

Month_update(self, input) ==
    IF input.tag = "Year" THEN [self EXCEPT !.year.input = input.input]
    ELSE [self EXCEPT !.month.input = input.input]

\* the body of Month::parse after its two `?`: year and month are what the
\* children's parse() return (the month child's is not asked for when the
\* year child's is an error)
Month_assemble(self, year, month) ==
    IF year.res.kind # "Ok"
    THEN Outcome(year.res, Under("year", year.evaluated))
    ELSE IF month.res.kind # "Ok"
    THEN Outcome(month.res,
                 Under("year", year.evaluated) \o Under("month", month.evaluated))
    ELSE
    LET ev == Under("year", year.evaluated) \o Under("month", month.evaluated)
        date == NaiveDate_from_ymd(resolution_Year_year_num(year.res.val),
                                   month.res.val, 1)
    IN  IF ~date.ok THEN Outcome(Panicked("from_ymd"), ev)
        ELSE LET parsed == resolution_Month_from_date(date.date)
                 v == validate(self.validations, "Month", parsed)
                 evs == ev \o Evaluated(<<"validations">>, v.evaluated)
             IN  IF ~v.ok THEN Outcome(ErrValidation(v.errors), evs)
                 ELSE Outcome(Ok(parsed), evs)

\* the month child is parsed first, and its error returned first
Month_parse_month_first(self) ==
    IF RelativeMonth_parse(self.month).res.kind # "Ok"
    THEN Outcome(RelativeMonth_parse(self.month).res,
                 Under("month", RelativeMonth_parse(self.month).evaluated))
    ELSE Month_assemble(self, Year_parse(self.year),
                        RelativeMonth_parse(self.month))

Month_parse(self) ==
    Month_assemble(self, Year_parse(self.year), RelativeMonth_parse(self.month))

Quarter_new(input, year_validations, quarter_validations, validations) ==
    [year |-> Year_new(resolution_Quarter_year(input), year_validations),
     quarter |-> RelativeQuarter_new(resolution_Quarter_quarter_num(input),
                                     quarter_validations),
     validations |-> validations]

Quarter_set_value(self, data) ==
    [self EXCEPT
        !.year = Year_set_value(self.year, resolution_Quarter_year(data)),
        !.quarter = RelativeQuarter_set_value(
                        self.quarter, resolution_Quarter_quarter_num(data))]

Quarter_update(self, input) ==
    IF input.tag = "Year" THEN [self EXCEPT !.year.input = input.input]
    ELSE [self EXCEPT !.quarter.input = input.input]

\* quarter * 3 - 2 on u32.  A difference below zero panics in a build with
\* overflow checks and wraps to a month far above 12 in one without, which
\* from_ymd then panics on: in both builds the call panics.
FirstMonthOfQuarter(quarter) ==
    IF quarter * 3 >= 2 THEN [ok |-> TRUE, val |-> quarter * 3 - 2]
    ELSE [ok |-> FALSE]

Quarter_assemble(self, year, quarter) ==
    IF year.res.kind # "Ok"
    THEN Outcome(year.res, Under("year", year.evaluated))
    ELSE IF quarter.res.kind # "Ok"
    THEN Outcome(quarter.res,
                 Under("year", year.evaluated)
                    \o Under("quarter", quarter.evaluated))
    ELSE
    LET ev == Under("year", year.evaluated)
                \o Under("quarter", quarter.evaluated)
        month == FirstMonthOfQuarter(quarter.res.val)
    IN  IF ~month.ok THEN Outcome(Panicked("quarter * 3 - 2"), ev)
        ELSE
        LET date == NaiveDate_from_ymd(resolution_Year_year_num(year.res.val),
                                       month.val, 1)
        IN  IF ~date.ok THEN Outcome(Panicked("from_ymd"), ev)
            ELSE LET parsed == resolution_Quarter_from_date(date.date)
                     v == validate(self.validations, "Quarter", parsed)
                     evs == ev \o Evaluated(<<"validations">>, v.evaluated)
                 IN  IF ~v.ok THEN Outcome(ErrValidation(v.errors), evs)
                     ELSE Outcome(Ok(parsed), evs)

Quarter_parse(self) ==
    Quarter_assemble(self, Year_parse(self.year),
                     RelativeQuarter_parse(self.quarter))

\* DateResolution<Year, resolution::Year>
DateResolution_new(input) == [input |-> input]

DateResolution_set_value(self, data) ==
    [self EXCEPT !.input = Year_set_value(self.input, data)]

DateResolution_update(self, input) ==
    [self EXCEPT !.input = Year_update(self.input, input)]

DateResolution_parse(self) ==
    LET parsed == Year_parse(self.input)
    IN  Outcome(parsed.res, Under("input", parsed.evaluated))

\* TimeRange<Year, resolution::Year>
TimeRange_new(data, dr_input, length_validations, range_validations) ==
    [date_resolution |->
        DateResolution_new(Year_set_value(dr_input, resolution_TimeRange_start(data))),
     length |-> Scalar_new(resolution_TimeRange_len(data),
                           <<"greater_than_zero">>, "u32"),
     length_validations |-> length_validations,
     range_validations |-> range_validations]

TimeRange_set_value(self, data) ==
    [self EXCEPT
        !.length = Scalar_set_value(self.length, resolution_TimeRange_len(data),
                                    "u32"),
        !.date_resolution = DateResolution_set_value(
                                self.date_resolution,
                                resolution_TimeRange_start(data))]

TimeRange_update(self, input) ==
    IF input.tag = "DateResolution"
    THEN [self EXCEPT !.date_resolution =
                          DateResolution_update(self.date_resolution, input.input)]
    ELSE [self EXCEPT !.length = Scalar_update(self.length, input.input)]

\* the body of TimeRange::parse after its first two `?`
TimeRange_assemble(self, start, len) ==
    IF start.res.kind # "Ok"
    THEN Outcome(start.res, Under("date_resolution", start.evaluated))
    ELSE IF len.res.kind # "Ok"
    THEN Outcome(len.res,
                 Under("date_resolution", start.evaluated)
                    \o Under("length", len.evaluated))
    ELSE
    LET lv == validate(self.length_validations, "u32", len.res.val)
        evl == Under("date_resolution", start.evaluated)
                \o Under("length", len.evaluated)
                \o Evaluated(<<"length_validations">>, lv.evaluated)
    IN  IF ~lv.ok THEN Outcome(ErrValidation(lv.errors), evl)
        ELSE
        LET range == resolution_TimeRange_new(start.res.val, len.res.val)
            rv == validate(self.range_validations, "TimeRange", range)
            evr == evl \o Evaluated(<<"range_validations">>, rv.evaluated)
        IN  IF ~rv.ok THEN Outcome(ErrValidation(rv.errors), evr)
            ELSE Outcome(Ok(range), evr)

\* the length is parsed and checked before the start
TimeRange_parse_length_first(self) ==
    IF Scalar_parse(self.length, "u32").res.kind # "Ok"
    THEN Outcome(Scalar_parse(self.length, "u32").res,
                 Under("length", Scalar_parse(self.length, "u32").evaluated))
    ELSE TimeRange_assemble(self, DateResolution_parse(self.date_resolution),
                            Scalar_parse(self.length, "u32"))

TimeRange_parse(self) ==
    TimeRange_assemble(self, DateResolution_parse(self.date_resolution),
                       Scalar_parse(self.length, "u32"))

(***************************************************************************)
(* lib.rs: FormError, a BTreeMap from field name to Error, and a Form of   *)
(* three Integer<u32> fields whose parse() records every field's result.   *)
(***************************************************************************)
FieldNames == {"a", "b", "c"}

FieldOrder == <<"a", "b", "c">>

\* the raw texts the form's fields are given
FormTexts == {<<"2">>, <<"x">>, <<"1", "3">>}

FormError_new == [f \in {} |-> Unit]

FormError_is_empty(self) == DOMAIN self = {}

\* BTreeMap::insert
MapInsert(map, key, value) ==
    [k \in DOMAIN map \cup {key} |-> IF k = key THEN value ELSE map[k]]

\* every result is stored, the successes too
FormError_add_result_any(self, name, result) == MapInsert(self, name, result)

\* a success takes the error recorded for the field out of the map
FormError_add_result_clearing(self, name, result) ==
    IF IsErr(result) THEN MapInsert(self, name, result)
    ELSE [k \in DOMAIN self \ {name} |-> self[k]]

FormError_add_result(self, name, result) ==
    IF IsErr(result) THEN MapInsert(self, name, result) ELSE self

FormError_add_error(self, name, err) == MapInsert(self, name, err)

Form_new(validations) ==
    [f \in FieldNames |-> Scalar_new(2, validations, "u32")]

Form_update(self, input) ==
    [self EXCEPT ![input.tag] = Scalar_update(self[input.tag], input.input)]

RECURSIVE Form_record(_, _, _)
Form_record(self, i, errs) ==
    IF i > Len(FieldOrder) THEN errs
    ELSE Form_record(
            self, i + 1,
            FormError_add_result(errs, FieldOrder[i],
                                 Scalar_parse(self[FieldOrder[i]], "u32").res))

\* the FormError a Form::parse builds: every field is parsed and recorded
Form_errors(self) == Form_record(self, 1, FormError_new)

Form_parse(self) ==
    IF FormError_is_empty(Form_errors(self))
    THEN Ok([f \in FieldNames |-> Scalar_parse(self[f], "u32").res.val])
    ELSE [kind |-> "FormError"]

(***************************************************************************)
(* The objects a behaviour can follow, and the arguments of their calls.   *)
(***************************************************************************)
AtomicKinds ==
    {"Integer", "Text", "Select", "RelationalSelect", "Year", "RelativeMonth",
     "RelativeQuarter"}

CompositeKinds == {"Month", "Quarter", "TimeRange"}

FieldKinds == AtomicKinds \cup CompositeKinds

Kinds == FieldKinds \cup {"Validations", "Form"}

U32Values == {0, 1, 2, 3, 12, 13}

YearValues == {resolution_Year_new(n) : n \in {2024, 3, -1, 300000}}

MonthValues ==
    {resolution_Month_from_date([year |-> d[1], month |-> d[2], day |-> 1]) :
        d \in {<<2024, 2>>, <<2024, 12>>, <<3, 1>>, <<-1, 11>>}}

QuarterValues ==
    {resolution_Quarter_from_date([year |-> d[1], month |-> d[2], day |-> 1]) :
        d \in {<<2024, 2>>, <<2024, 12>>, <<3, 1>>, <<-1, 8>>}}

TimeRangeValues ==
    {resolution_TimeRange_new(y, n) : y \in YearValues, n \in {1, 3}}

OptionSets == {{}, {1, 2}, {3, 12}}

OptionMaps ==
    {[k \in {} |-> ""], [k \in {1, 2} |-> IF k = 1 THEN "Jan" ELSE "Feb"],
     [k \in {3, 12} |-> IF k = 3 THEN "Mar" ELSE "Dec"]}

Msg(tag, input) == [tag |-> tag, input |-> input]

\* Self::Output
Outputs(k) ==
    CASE k \in {"Integer", "Select", "RelationalSelect", "RelativeMonth",
                "RelativeQuarter"} -> U32Values
      [] k = "Text" -> Texts
      [] k = "Year" -> YearValues
      [] k = "Month" -> MonthValues
      [] k = "Quarter" -> QuarterValues
      [] k = "TimeRange" -> TimeRangeValues

\* Self::Input
Inputs(k) ==
    CASE k \in AtomicKinds -> Texts
      [] k = "Month" -> {Msg(t, s) : t \in {"Year", "Month"}, s \in Texts}
      [] k = "Quarter" -> {Msg(t, s) : t \in {"Year", "Quarter"}, s \in Texts}
      [] k = "TimeRange" ->
            {Msg(t, s) : t \in {"DateResolution", "Length"}, s \in Texts}

\* the objects the constructors build
New(k) ==
    CASE k = "Integer" ->
            {Scalar_new(d, v, "u32") : d \in U32Values, v \in RuleLists}
      [] k = "Text" ->
            {Scalar_new(d, v, "String") : d \in Texts, v \in RuleLists}
      [] k = "Select" ->
            {Select_new(d, o) : d \in U32Values, o \in OptionSets}
      [] k = "RelationalSelect" ->
            {RelationalSelect_new(s, o) : s \in Texts, o \in OptionMaps}
      [] k = "Year" -> {Year_new(d, v) : d \in YearValues, v \in RuleLists}
      [] k = "RelativeMonth" ->
            {RelativeMonth_new(d, v) : d \in U32Values, v \in RuleLists}
      [] k = "RelativeQuarter" ->
            {RelativeQuarter_new(d, v) : d \in U32Values, v \in RuleLists}
      [] k = "Month" ->
            {Month_new(d, yv, mv, v) :
                d \in MonthValues, yv \in ChildRuleLists,
                mv \in ChildRuleLists, v \in RuleLists}
      [] k = "Quarter" ->
            {Quarter_new(d, yv, qv, v) :
                d \in QuarterValues, yv \in ChildRuleLists,
                qv \in ChildRuleLists, v \in RuleLists}
      [] k = "TimeRange" ->
            {TimeRange_new(d, Year_new(resolution_Year_new(2024), yv), lv, v) :
                d \in TimeRangeValues, yv \in ChildRuleLists,
                lv \in ChildRuleLists, v \in RuleLists}
      [] k = "Validations" -> {[funcs |-> fs] : fs \in RuleLists}
      [] k = "Form" -> {Form_new(v) : v \in ChildRuleLists}

\* UserInput::update, UserInput::set_value and UserInput::parse of the kind
update(k, self, input) ==
    CASE k \in {"Integer", "Text"} -> Scalar_update(self, input)
      [] k = "Select" -> Select_update(self, input)
      [] k = "RelationalSelect" -> RelationalSelect_update(self, input)
      [] k = "Year" -> Year_update(self, input)
      [] k = "RelativeMonth" -> RelativeMonth_update(self, input)
      [] k = "RelativeQuarter" -> RelativeQuarter_update(self, input)
      [] k = "Month" -> Month_update(self, input)
      [] k = "Quarter" -> Quarter_update(self, input)
      [] k = "TimeRange" -> TimeRange_update(self, input)

set_value(k, self, data) ==
    CASE k = "Integer" -> Scalar_set_value(self, data, "u32")
      [] k = "Text" -> Scalar_set_value(self, data, "String")
      [] k = "Select" -> Select_set_value(self, data)
      [] k = "RelationalSelect" -> RelationalSelect_set_value(self, data)
      [] k = "Year" -> Year_set_value(self, data)
      [] k = "RelativeMonth" -> RelativeMonth_set_value(self, data)
      [] k = "RelativeQuarter" -> RelativeQuarter_set_value(self, data)
      [] k = "Month" -> Month_set_value(self, data)
      [] k = "Quarter" -> Quarter_set_value(self, data)
      [] k = "TimeRange" -> TimeRange_set_value(self, data)

parse(k, self) ==
    CASE k = "Integer" -> Scalar_parse(self, "u32")
      [] k = "Text" -> Scalar_parse(self, "String")
      [] k = "Select" -> Select_parse(self)
      [] k = "RelationalSelect" -> RelationalSelect_parse(self)
      [] k = "Year" -> Year_parse(self)
      [] k = "RelativeMonth" -> RelativeMonth_parse(self)
      [] k = "RelativeQuarter" -> RelativeQuarter_parse(self)
      [] k = "Month" -> Month_parse(self)
      [] k = "Quarter" -> Quarter_parse(self)
      [] k = "TimeRange" -> TimeRange_parse(self)

(***************************************************************************)
(* The state machine.  `ret` is the last call: its name, its argument (the  *)
(* one-element sequence `input` for a Self::Input or a field's raw text,   *)
(* `data` for a typed value; <<>> when the call has none), the value it    *)
(* returned and the rules it called.                                       *)
(***************************************************************************)
Call(op, input, data, res, evaluated) ==
    [op |-> op, input |-> input, data |-> data, res |-> res,
     evaluated |-> evaluated]

Returned(op, outcome) == Call(op, <<>>, <<>>, outcome.res, outcome.evaluated)

Init ==
    /\ kind \in Kinds
    /\ field \in New(kind)
    /\ errors = FormError_new
    /\ ret = Call("new", <<>>, <<>>, Unit, <<>>)

Update ==
    /\ kind \in FieldKinds
    /\ \E input \in Inputs(kind) :
        /\ field' = update(kind, field, input)
        /\ ret' = Call("update", <<input>>, <<>>, Unit, <<>>)
    /\ UNCHANGED <<kind, errors>>

SetValue ==
    /\ kind \in FieldKinds
    /\ \E data \in Outputs(kind) :
        /\ field' = set_value(kind, field, data)
        /\ ret' = Call("set_value", <<>>, <<data>>, Unit, <<>>)
    /\ UNCHANGED <<kind, errors>>

\* a parse() of an atomic field that throws the raw text away when it fails
Parse_clearing ==
    /\ kind \in FieldKinds
    /\ ret' = Returned("parse", parse(kind, field))
    /\ field' = IF kind \in AtomicKinds /\ IsErr(parse(kind, field).res)
                THEN [field EXCEPT !.input = <<>>]
                ELSE field
    /\ UNCHANGED <<kind, errors>>

\* parse(&self): the field is borrowed immutably
Parse ==
    /\ kind \in FieldKinds
    /\ ret' = Returned("parse", parse(kind, field))
    /\ UNCHANGED <<kind, field, errors>>

Validate ==
    /\ kind = "Validations"
    /\ \E input \in U32Values :
        LET v == validate(field.funcs, "u32", input)
        IN  ret' = Call("validate", <<>>, <<input>>,
                        IF v.ok THEN Ok(Unit)
                        ELSE [kind |-> "ValidationErrors", errors |-> v.errors],
                        Evaluated(<<"funcs">>, v.evaluated))
    /\ UNCHANGED <<kind, field, errors>>

FormUpdate ==
    /\ kind = "Form"
    /\ \E name \in FieldNames, text \in FormTexts :
        /\ field' = Form_update(field, Msg(name, text))
        /\ ret' = Call("Form.update", <<Msg(name, text)>>, <<>>, Unit, <<>>)
    /\ UNCHANGED <<kind, errors>>

FormParse ==
    /\ kind = "Form"
    /\ errors' = Form_errors(field)
    /\ ret' = Call("Form.parse", <<>>, <<>>, Form_parse(field), <<>>)
    /\ UNCHANGED <<kind, field>>

\* the results and errors at hand to record: those of the form's fields
AddResult ==
    /\ kind = "Form"
    /\ \E name \in FieldNames, of \in FieldNames :
        LET result == Scalar_parse(field[of], "u32").res
        IN  /\ errors' = FormError_add_result(errors, name, result)
            /\ ret' = Call("add_result", <<>>, <<Msg(name, result)>>, Unit, <<>>)
    /\ UNCHANGED <<kind, field>>

AddError ==
    /\ kind = "Form"
    /\ \E name \in FieldNames, of \in FieldNames :
        LET result == Scalar_parse(field[of], "u32").res
        IN  /\ IsErr(result)
            /\ errors' = FormError_add_error(errors, name, result)
            /\ ret' = Call("add_error", <<>>, <<Msg(name, result)>>, Unit, <<>>)
    /\ UNCHANGED <<kind, field>>

Next ==
    \/ Update
    \/ SetValue
    \/ Parse
    \/ Validate
    \/ FormUpdate
    \/ FormParse
    \/ AddResult
    \/ AddError

Spec == Init /\ [][Next]_vars

(***************************************************************************)
(* Properties.                                                             *)
(***************************************************************************)
\* the positions of the rules of funcs that reject v
Rejecting(funcs, T, v) == {i \in 1..Len(funcs) : ~CallRule(funcs[i], T, v).ok}

\* the j-th smallest element of the set of numbers F
Nth(F, j) == CHOOSE i \in F : Cardinality({x \in F : x < i}) = j - 1

\* the messages of the rejecting rules, in rule-registration order
RejectionMessages(funcs, T, v) ==
    [j \in 1..Cardinality(Rejecting(funcs, T, v)) |->
        CallRule(funcs[Nth(Rejecting(funcs, T, v), j)], T, v).msg]

\* the rule sets (by path) of which ret.evaluated holds a rule
SetsEvaluated == {ret.evaluated[i].set : i \in 1..Len(ret.evaluated)}

\* the rules of the rule set at `path` that the last call evaluated, in order
EvaluatedOf(path) ==
    LET IsOf(e) == e.set = path
        es == SelectSeq(ret.evaluated, IsOf)
    IN  [i \in 1..Len(es) |-> es[i].rule]

\* C1: validate(value) calls every registered rule (no short-circuit); with k
\* of the N rules rejecting the value it returns an error holding exactly
\* those k messages in rule-registration order, and Ok iff k = 0.
C1_ValidateFansOut ==
    ret.op = "validate" =>
        /\ EvaluatedOf(<<"funcs">>) = field.funcs
        /\ (ret.res.kind = "Ok") <=> (Rejecting(field.funcs, "u32", ret.data[1]) = {})
        /\ ret.res.kind # "Ok" =>
            /\ ret.res.kind = "ValidationErrors"
            /\ ret.res.errors = RejectionMessages(field.funcs, "u32", ret.data[1])
            /\ Len(ret.res.errors)
                 = Cardinality(Rejecting(field.funcs, "u32", ret.data[1]))

\* two rules, the first accepts and the second rejects
C1_Witness ==
    /\ ret.op = "validate"
    /\ Len(field.funcs) = 2
    /\ Rejecting(field.funcs, "u32", ret.data[1]) = {2}
    /\ ret.res.kind = "ValidationErrors"

\* the kinds whose parse() is `convert, then validate`
TwoStageKinds == {"Integer", "Text", "Year"}

\* the conversion of the raw text of a two-stage field to its Output
Converted(k, input) ==
    CASE k = "Integer" -> ParseU32(input)
      [] k = "Text" -> ParseString(input)
      [] k = "Year" ->
            IF ParseI32(input).ok
            THEN [ok |-> TRUE, val |-> resolution_Year_new(ParseI32(input).val)]
            ELSE ParseI32(input)

OutputType(k) ==
    CASE k = "Integer" -> "u32" [] k = "Text" -> "String" [] k = "Year" -> "Year"

\* C2: an atomic field's parse() has two ordered stages: raw text that does
\* not convert gives Error::Parse and none of the field's rules is evaluated;
\* the rules are evaluated (all of them) only on a converted value, and a
\* rejection gives Error::Validation with all failing messages; no parse()
\* reports both kinds.
C2_ParseThenValidate ==
    (ret.op = "parse" /\ kind \in TwoStageKinds) =>
        LET c == Converted(kind, field.input)
        IN  /\ ~c.ok =>
                /\ ret.res = ErrParse(c.err)
                /\ ret.evaluated = <<>>
            /\ c.ok =>
                /\ EvaluatedOf(<<"validations">>) = field.validations
                /\ Len(ret.evaluated) = Len(field.validations)
                /\ IF Rejecting(field.validations, OutputType(kind), c.val) = {}
                   THEN ret.res = Ok(c.val)
                   ELSE ret.res = ErrValidation(
                            RejectionMessages(field.validations,
                                              OutputType(kind), c.val))
            /\ ret.res.kind \in {"Ok", "Parse", "Validation"}

\* the text does not convert and the field has rules
C2_Witness ==
    /\ ret.op = "parse"
    /\ kind = "Integer"
    /\ ret.res.kind = "Parse"
    /\ Len(field.validations) = 2

\* what the second child of a Month or Quarter returns from parse()
SecondChild ==
    IF kind = "Month" THEN RelativeMonth_parse(field.month)
    ELSE RelativeQuarter_parse(field.quarter)

\* C3: Month.parse() and Quarter.parse() fail fast, left to right: a failing
\* year child gives exactly its error whatever the second child's text; with
\* the year parsed, a failing second child gives exactly its error; the
\* composite's own rules are evaluated only when both children succeeded.
C3_CompositeFailsFast ==
    (ret.op = "parse" /\ kind \in {"Month", "Quarter"}) =>
        LET year == Year_parse(field.year)
        IN  /\ IsErr(year.res) =>
                /\ ret.res = year.res
                /\ SetsEvaluated \subseteq {<<"year", "validations">>}
            /\ (~IsErr(year.res) /\ IsErr(SecondChild.res)) =>
                /\ ret.res = SecondChild.res
                /\ <<"validations">> \notin SetsEvaluated
            /\ <<"validations">> \in SetsEvaluated =>
                (year.res.kind = "Ok" /\ SecondChild.res.kind = "Ok")
            /\ (year.res.kind = "Ok" /\ SecondChild.res.kind = "Ok"
                    /\ ret.res.kind # "Panic") =>
                EvaluatedOf(<<"validations">>) = field.validations

\* the year fails and the month's text is invalid too
C3_Witness ==
    /\ ret.op = "parse"
    /\ kind = "Month"
    /\ IsErr(Year_parse(field.year).res)
    /\ IsErr(RelativeMonth_parse(field.month).res)
    /\ ret.res = Year_parse(field.year).res

\* the stage of TimeRange::parse a rule set belongs to
Stage(set) ==
    CASE set[1] = "date_resolution" -> 1
      [] set[1] = "length" -> 2
      [] set[1] = "length_validations" -> 3
      [] set[1] = "range_validations" -> 4

GreaterThanZeroError ==
    ErrValidation(<<Message("Input must be greater than zero", <<>>)>>)

\* C4: TimeRange.parse() runs start parse, length parse (with the built-in
\* greater-than-zero rule), the caller's length rules, range construction and
\* the range rules in this order and returns the first failure without
\* evaluating a later stage: a start failure wins over any length problem;
\* with a valid start, length "0" fails with the greater-than-zero message
\* and length "3" with passing rules gives a range of length 3 at the start.
C4_TimeRangeStages ==
    (ret.op = "parse" /\ kind = "TimeRange") =>
        LET start == Year_parse(field.date_resolution.input)
            len == ParseU32(field.length.input)
        IN  /\ \A i, j \in 1..Len(ret.evaluated) :
                    i < j => Stage(ret.evaluated[i].set)
                                <= Stage(ret.evaluated[j].set)
            /\ IsErr(start.res) =>
                /\ ret.res = start.res
                /\ \A s \in SetsEvaluated : Stage(s) = 1
            /\ (start.res.kind = "Ok" /\ ~len.ok) =>
                /\ ret.res = ErrParse(len.err)
                /\ \A s \in SetsEvaluated : Stage(s) = 1
            /\ (start.res.kind = "Ok" /\ field.length.input = <<"0">>) =>
                /\ ret.res = GreaterThanZeroError
                /\ \A s \in SetsEvaluated : Stage(s) <= 2
            /\ (start.res.kind = "Ok" /\ len.ok /\ len.val > 0
                    /\ Rejecting(field.length_validations, "u32", len.val) # {}) =>
                /\ ret.res = ErrValidation(
                        RejectionMessages(field.length_validations, "u32",
                                          len.val))
                /\ \A s \in SetsEvaluated : Stage(s) <= 3
            /\ (start.res.kind = "Ok" /\ field.length.input = <<"3">>
                    /\ ret.res.kind = "Ok") =>
                /\ resolution_TimeRange_len(ret.res.val) = 3
                /\ resolution_TimeRange_start(ret.res.val) = start.res.val
            /\ (start.res.kind = "Ok" /\ len.ok /\ len.val > 0
                    /\ Rejecting(field.length_validations, "u32", len.val) = {}) =>
                LET range == resolution_TimeRange_new(start.res.val, len.val)
                IN  /\ EvaluatedOf(<<"range_validations">>)
                            = field.range_validations
                    /\ IF Rejecting(field.range_validations, "TimeRange",
                                    range) = {}
                       THEN ret.res = Ok(range)
                       ELSE ret.res = ErrValidation(
                                RejectionMessages(field.range_validations,
                                                  "TimeRange", range))

\* the start fails while the length is "0": the start's error is returned
C4_Witness ==
    /\ ret.op = "parse"
    /\ kind = "TimeRange"
    /\ IsErr(Year_parse(field.date_resolution.input).res)
    /\ field.length.input = <<"0">>
    /\ ret.res = Year_parse(field.date_resolution.input).res

\* the fields of the form whose parse() returns an error
FailingFields == {f \in FieldNames : IsErr(Scalar_parse(field[f], "u32").res)}

\* C5: when a form records the parse result of each of its fields once with
\* add_result, the error map's keys are exactly the fields whose parse()
\* returned an error, each with that error, and is_empty() holds iff every
\* field succeeded.
C5_FormErrorKeys ==
    ret.op = "Form.parse" =>
        /\ DOMAIN errors = FailingFields
        /\ \A f \in FailingFields : errors[f] = Scalar_parse(field[f], "u32").res
        /\ FormError_is_empty(errors) <=> (FailingFields = {})
        /\ (ret.res.kind = "Ok") <=> (FailingFields = {})

\* a and c fail, b succeeds
C5_Witness ==
    /\ ret.op = "Form.parse"
    /\ DOMAIN errors = {"a", "c"}
    /\ ~IsErr(Scalar_parse(field["b"], "u32").res)

RoundTripKinds == FieldKinds \ {"TimeRange"}

\* every rule list of the field is empty
NoRules ==
    CASE kind \in {"Select", "RelationalSelect"} -> TRUE
      [] kind \in {"Integer", "Text", "Year", "RelativeMonth", "RelativeQuarter"}
            -> field.validations = <<>>
      [] kind = "Month" ->
            /\ field.validations = <<>>
            /\ field.year.validations = <<>>
            /\ field.month.validations = <<>>
      [] kind = "Quarter" ->
            /\ field.validations = <<>>
            /\ field.year.validations = <<>>
            /\ field.quarter.validations = <<>>
      [] OTHER -> FALSE

\* v is a value the field accepts: an option of a Select, a key of a
\* RelationalSelect, a month number in 1..=12, a quarter number in 1..=4
Accepted(v) ==
    CASE kind = "Select" -> v \in field.options
      [] kind = "RelationalSelect" -> v \in DOMAIN field.options
      [] kind = "RelativeMonth" -> v >= 1 /\ v <= 12
      [] kind = "RelativeQuarter" -> v >= 1 /\ v <= 4
      [] OTHER -> TRUE

\* C7 as claimed: with an empty rule set, set_value(v) followed by parse()
\* succeeds and returns v, for every value v of the field's Output type.
C7_RoundTripEveryValue ==
    [][ (ret.op = "set_value" /\ ret'.op = "parse"
            /\ kind \in RoundTripKinds /\ NoRules) =>
            (ret'.res.kind = "Ok" /\ ret'.res.val = ret.data[1]) ]_vars

\* C7 as amended: with an empty rule set, set_value(v) followed by parse()
\* succeeds and returns v for every value v the field accepts (an option of a
\* Select, a key of a RelationalSelect, 1..=12 for a RelativeMonth, 1..=4 for a
\* RelativeQuarter, any value of the other kinds); for a value a Select,
\* RelationalSelect, RelativeMonth or RelativeQuarter does not accept, the
\* parse() fails.
C7_RoundTripAcceptedValue ==
    [][ (ret.op = "set_value" /\ ret'.op = "parse"
            /\ kind \in RoundTripKinds /\ NoRules) =>
            IF Accepted(ret.data[1])
            THEN ret'.res.kind = "Ok" /\ ret'.res.val = ret.data[1]
            ELSE IsErr(ret'.res) ]_vars

\* a Month set to a value of a negative year and parsed back
C7_Witness ==
    /\ ret.op = "parse"
    /\ kind = "Month"
    /\ NoRules
    /\ ret.res.kind = "Ok"
    /\ resolution_Year_year_num(resolution_Month_year(ret.res.val)) < 0
    /\ field = Month_set_value(field, ret.res.val)

RangeMessage(k, n) ==
    IF k = "RelativeMonth"
    THEN Message("Month number should be between 1 and 12 but was {}",
                 NatToString(n))
    ELSE Message("Quarter number should be between 1 and 4 but was {}",
                 NatToString(n))

UpperBound(k) == IF k = "RelativeMonth" THEN 12 ELSE 4

\* C8: RelativeMonth.parse() (RelativeQuarter.parse() with bound 4): text that
\* parses to a number n outside 1..=12 (1..=4) fails with Error::Validation
\* holding exactly the range message naming n, and the field's rules are not
\* evaluated; text that parses to n inside the range goes on to the rules and,
\* with an empty rule set, succeeds with n.
C8_RangeCheckBeforeRules ==
    (ret.op = "parse" /\ kind \in {"RelativeMonth", "RelativeQuarter"}) =>
        LET n == ParseU32(field.input)
        IN  /\ (n.ok /\ (n.val < 1 \/ n.val > UpperBound(kind))) =>
                /\ ret.res = ErrValidation(<<RangeMessage(kind, n.val)>>)
                /\ ret.evaluated = <<>>
            /\ (n.ok /\ n.val >= 1 /\ n.val <= UpperBound(kind)) =>
                /\ EvaluatedOf(<<"validations">>) = field.validations
                /\ field.validations = <<>> => ret.res = Ok(n.val)
                /\ ret.res.kind = "Validation" =>
                    ret.res.errors = RejectionMessages(field.validations, "u32",
                                                       n.val)

\* "13" in a RelativeMonth that has rules
C8_Witness ==
    /\ ret.op = "parse"
    /\ kind = "RelativeMonth"
    /\ field.input = <<"1", "3">>
    /\ field.validations # <<>>
    /\ ret.res.kind = "Validation"

\* the values a Select or RelationalSelect allows
Members == IF kind = "Select" THEN field.options ELSE DOMAIN field.options

\* C9: Select.parse() and RelationalSelect.parse() succeed iff the raw text
\* converts to a candidate that is a member of the option set / a key of the
\* option map, and return that candidate; when the text converts and the
\* candidate is no member the result is a SelectError whose message names the
\* raw text; membership is by key, not by position.
C9_SelectMembership ==
    (ret.op = "parse" /\ kind \in {"Select", "RelationalSelect"}) =>
        LET candidate == ParseU32(field.input)
        IN  /\ (ret.res.kind = "Ok")
                    <=> (candidate.ok /\ candidate.val \in Members)
            /\ ret.res.kind = "Ok" => ret.res.val = candidate.val
            /\ (candidate.ok /\ candidate.val \notin Members) =>
                /\ ret.res.kind = "Parse"
                /\ ret.res.cause.cause = "SelectError"
                /\ SelectError_fmt(ret.res.cause)
                     = Message("Value {} is not in the list of allowed options",
                               field.input)
            /\ ~candidate.ok => ret.res = ErrParse(candidate.err)

\* the option map {1: "Jan", 2: "Feb"} and the raw text "3"
C9_Witness ==
    /\ ret.op = "parse"
    /\ kind = "RelationalSelect"
    /\ DOMAIN field.options = {1, 2}
    /\ field.input = <<"3">>
    /\ ret.res.kind = "Parse"

\* the raw texts of a composite field, by child
Raw(f) ==
    CASE kind = "Month" -> [first |-> f.year.input, second |-> f.month.input]
      [] kind = "Quarter" -> [first |-> f.year.input, second |-> f.quarter.input]
      [] kind = "TimeRange" ->
            [first |-> f.date_resolution.input.input, second |-> f.length.input]

\* the rule lists a field holds
RuleSets(f) ==
    CASE kind \in {"Select", "RelationalSelect"} -> <<>>
      [] kind \in {"Integer", "Text", "Year", "RelativeMonth", "RelativeQuarter"}
            -> <<f.validations>>
      [] kind = "Month" ->
            <<f.year.validations, f.month.validations, f.validations>>
      [] kind = "Quarter" ->
            <<f.year.validations, f.quarter.validations, f.validations>>
      [] kind = "TimeRange" ->
            <<f.date_resolution.input.validations, f.length.validations,
              f.length_validations, f.range_validations>>

FirstTag == {"Year", "DateResolution"}

\* C10: a composite's update touches only the addressed child: the Year
\* (DateResolution) message sets the first child's raw text and leaves the
\* second child's unchanged, the Month / Quarter / Length message does the
\* reverse; no update changes a rule set.
C10_UpdateRouting ==
    [][ (ret'.op = "update" /\ kind \in FieldKinds) =>
            /\ RuleSets(field') = RuleSets(field)
            /\ kind \in CompositeKinds =>
                IF ret'.input[1].tag \in FirstTag
                THEN /\ Raw(field').first = ret'.input[1].input
                     /\ Raw(field').second = Raw(field).second
                ELSE /\ Raw(field').second = ret'.input[1].input
                     /\ Raw(field').first = Raw(field).first ]_vars

\* a Month whose year child was just set to a text its month child does not hold
C10_Witness ==
    /\ ret.op = "update"
    /\ kind = "Month"
    /\ ret.input[1].tag = "Year"
    /\ field.year.input = ret.input[1].input
    /\ field.month.input # ret.input[1].input

\* the Month value of the first day of month m of year y
MonthOf(y, m) == resolution_Month_from_date([year |-> y, month |-> m, day |-> 1])

\* C11: Month assembly: whenever the year child parses to y and the month
\* child parses to m (1..=12) and the composite rule set accepts, Month.parse()
\* succeeds with the Month value built from the date (y, m, day 1); the result
\* depends on nothing but y, m and the composite rules (when they reject, it
\* is their messages).
C11_MonthAssembly ==
    (ret.op = "parse" /\ kind = "Month") =>
        LET year == Year_parse(field.year).res
            month == RelativeMonth_parse(field.month).res
        IN  (year.kind = "Ok" /\ month.kind = "Ok") =>
                LET built == MonthOf(resolution_Year_year_num(year.val),
                                     month.val)
                IN  IF Rejecting(field.validations, "Month", built) = {}
                    THEN ret.res = Ok(built)
                    ELSE ret.res = ErrValidation(
                            RejectionMessages(field.validations, "Month", built))

\* C12: with rule functions that do not panic, Month.parse() and
\* Quarter.parse() always return a Result (Ok or Err) and never terminate
\* abnormally, for every raw year text and every raw month / quarter text,
\* including every year text that parses as a 32-bit integer.
C12_ParseAlwaysReturns ==
    (ret.op = "parse" /\ kind \in {"Month", "Quarter"}) =>
        ret.res.kind \in {"Ok", "Parse", "Validation"}

\* C13: Quarter assembly arithmetic: in Quarter.parse() the first-month
\* expression quarter * 3 - 2 is evaluated only for quarter values that passed
\* the 1..=4 range check (a number outside it ends parse() with the range
\* message), so the unsigned 32-bit subtraction never underflows and the month
\* passed to date construction is always one of 1, 4, 7, 10: quarter q maps to
\* month 3q - 2.
C13_QuarterFirstMonth ==
    (ret.op = "parse" /\ kind = "Quarter") =>
        LET year == Year_parse(field.year).res
            quarter == RelativeQuarter_parse(field.quarter).res
            n == ParseU32(field.quarter.input)
        IN  /\ ret.res.kind = "Panic" => ret.res.why # "quarter * 3 - 2"
            /\ (year.kind = "Ok" /\ n.ok /\ (n.val < 1 \/ n.val > 4)) =>
                ret.res = ErrValidation(<<RangeMessage("RelativeQuarter", n.val)>>)
            /\ (year.kind = "Ok" /\ quarter.kind = "Ok") =>
                LET month == FirstMonthOfQuarter(quarter.val)
                IN  /\ quarter.val \in 1..4
                    /\ month.ok
                    /\ month.val \in {1, 4, 7, 10}
                    /\ month.val = 3 * quarter.val - 2
                    /\ ret.res.kind = "Ok" =>
                        /\ resolution_Quarter_quarter_num(ret.res.val) = quarter.val
                        /\ ret.res.val = resolution_Quarter_from_date(
                              [year |-> resolution_Year_year_num(year.val),
                               month |-> month.val, day |-> 1])

\* the fourth quarter, assembled from month 10
C13_Witness ==
    /\ ret.op = "parse"
    /\ kind = "Quarter"
    /\ ret.res.kind = "Ok"
    /\ RelativeQuarter_parse(field.quarter).res = Ok(4)
    /\ FirstMonthOfQuarter(4).val = 10
    /\ resolution_Quarter_quarter_num(ret.res.val) = 4

\* what an atomic field is constructed with and no call is given: the options
\* of a Select or RelationalSelect, the rule list of the other kinds
Fixed(f) ==
    IF kind \in {"Select", "RelationalSelect"} THEN f.options ELSE f.validations

\* the canonical rendering of a value of the field's Output type
Rendering(v) ==
    CASE kind = "Text" -> v
      [] kind = "Year" -> IntToString(resolution_Year_year_num(v))
      [] OTHER -> NatToString(v)

\* a newly constructed field with the options / rules of the field followed
Fresh == CHOOSE f \in New(kind) : Fixed(f) = Fixed(field)

\* C14: last write wins: after any sequence of update and set_value calls on
\* an atomic field the stored raw text equals the argument of the last update
\* (or the canonical rendering of the last set_value value), the options and
\* rules are what the field was built with, and the result of parse() is the
\* one a newly built field with the same options / rules gives after that one
\* call: it does not depend on any earlier call, nor on an earlier parse().
C14_LastWriteWins ==
    [][ (kind \in AtomicKinds) =>
            /\ ret'.op = "update" =>
                /\ field'.input = ret'.input[1]
                /\ Fixed(field') = Fixed(field)
            /\ ret'.op = "set_value" =>
                /\ field'.input = Rendering(ret'.data[1])
                /\ Fixed(field') = Fixed(field)
            /\ (ret'.op = "parse" /\ ret.op = "update") =>
                ret'.res = parse(kind, update(kind, Fresh, ret.input[1])).res
            /\ (ret'.op = "parse" /\ ret.op = "set_value") =>
                ret'.res = parse(kind, set_value(kind, Fresh, ret.data[1])).res
            /\ (ret'.op = "parse" /\ ret.op = "parse") =>
                ret'.res = ret.res ]_vars

\* an Integer parsed after an update to a text no constructor and no
\* set_value writes
C14_Witness ==
    /\ ret.op = "parse"
    /\ kind = "Integer"
    /\ field.input = <<"+", "3">>
    /\ field \notin New(kind)
    /\ ret.res.kind \in {"Ok", "Validation"}

\* C15: FormError entries are only ever added or replaced, never removed:
\* add_result(field, Ok) leaves the error map unchanged even when the map
\* already holds an error for that field, and add_result(field, Err e) or
\* add_error(field, e) puts e under the field's name, in place of the error
\* stored there if there is one, and leaves every other entry alone; so the
\* map holds at most one error per field name, the last one recorded for it.
C15_EntriesAddedOrReplaced ==
    [][ (ret'.op \in {"add_result", "add_error"}) =>
            LET name == ret'.data[1].tag
                result == ret'.data[1].input
            IN  /\ DOMAIN errors \subseteq DOMAIN errors'
                /\ DOMAIN errors' \subseteq FieldNames
                /\ IF IsErr(result)
                   THEN /\ DOMAIN errors' = DOMAIN errors \cup {name}
                        /\ errors'[name] = result
                        /\ \A f \in DOMAIN errors \ {name} : errors'[f] = errors[f]
                   ELSE errors' = errors ]_vars

\* a success recorded for a field the map holds an error for: the error stays
C15_Witness ==
    /\ ret.op = "add_result"
    /\ ~IsErr(ret.data[1].input)
    /\ ret.data[1].tag \in DOMAIN errors
    /\ IsErr(errors[ret.data[1].tag])

====
